---- MODULE Spec2Model ----
(***************************************************************************)
(* Model of the mailbox of package dispatch (src/actor/actor_system_impl.go *)
(* lines 260-463): the packed atomic status word, the CAS retry loops of    *)
(* suspend / resume / becomeClosed / setAsIdle, and Run / processMailbox.   *)
(* The dispatcher (RegisterForExecution, Throughput, the worker pool), the  *)
(* user message queue and the system-message enqueue are collaborators the  *)
(* mailbox only calls through interfaces; they follow the design document.  *)
(***************************************************************************)
EXTENDS Integers, Sequences, FiniteSets, TLC

(* ---------------------------- bounds ----------------------------------- *)
NumWorkers    == 2   \* worker threads of the dispatcher's pool
NumCtl        == 2   \* threads calling suspend / resume / becomeClosed
NumSenders    == 2   \* threads calling Enqueue on the user path
MaxPerSender  == 2   \* user messages the first sender enqueues
MaxSys        == 1   \* system messages enqueued
MaxCtlOps     == 2   \* suspend / resume / becomeClosed calls of the first thread
MaxThroughput == 2   \* largest configured dispatcher throughput
MaxPanics     == 1   \* invocations that panic in a behaviour

Workers == 1..NumWorkers
Ctl     == 1..NumCtl
Senders == 1..NumSenders
ThroughputValues == (-1)..MaxThroughput

(* ----------------------- status word constants ------------------------- *)
MailboxStatusOpen        == 0
MailboxStatusClosed      == 1
MailboxStatusScheduled   == 2
MailboxStatusShouldScheduleMask == 3
MailboxStatusSuspendUnit == 4
MaxInt32 == 2147483647

\* bit k of a two's-complement integer (\div is floor division, % is >= 0)
Bit(s, k) == (s \div (2 ^ k)) % 2

\* s & ^2 : everything but the Scheduled bit
AndNotScheduled(s) == s - MailboxStatusScheduled * Bit(s, 1)
\* s & ^3 : the suspend counter bits
AndSuspendMask(s) == s - (s % 4)
\* s & 3
AndShouldScheduleMask(s) == s % 4
\* s & 2
AndScheduled(s) == MailboxStatusScheduled * Bit(s, 1)

\* int32 addition of a small positive unit, wrapping at 2^31
AddInt32(s, u) ==
    IF s > MaxInt32 - u THEN ((s - MaxInt32) + (u - MaxInt32)) - 2 ELSE s + u

(* ------------------------------ messages ------------------------------- *)
\* a user envelope is <<sender, n>>, the n-th envelope of that sender;
\* a system message is <<0, n>>
NoMsg    == <<0, 0>>
UserMsgs == Senders \X (1..MaxPerSender)
SysMsgs  == {0} \X (1..MaxSys)
AllMsgs  == UserMsgs \cup SysMsgs
IsSys(m)  == m[1] = 0 /\ m[2] > 0

VARIABLES
    status,       \* Mailbox.status
    userQueue,    \* Mailbox.messageQueue (FIFO)
    systemQueue,  \* Mailbox.systemMailbox
    deadLetters,  \* the dead-letter sink's queue
    invoked,      \* the envelopes handed to invoker.Invoke, in call order
    throughput,   \* Dispatcher().Throughput()
    pool,         \* Runs submitted to the worker pool and not yet started
    wk,           \* per worker: position in Run and its locals
    ctl,          \* per control thread: position in suspend/resume/becomeClosed
    sent,         \* per sender: envelopes enqueued so far
    sysSent,      \* system messages enqueued so far
    opsLeft,      \* per control thread: calls it will still make
    panicLeft,    \* panicking invocations still allowed
    quota,        \* per sender: envelopes it will enqueue
    sysQuota,     \* system messages that will be enqueued
    lastRet,      \* the last call of suspend/resume/becomeClosed and its result
    nSusp,        \* suspend() calls completed on a non-closed mailbox
    nRes,         \* resume() calls completed on a non-closed mailbox
    ordered,      \* so far every resume followed its suspend
    closeTrue,    \* becomeClosed() calls that returned true
    closeFalse,   \* becomeClosed() calls that returned false
    lastRun,      \* what the Run that ended last did, from its entry on
    crashed       \* a panic escaped Run: the process is gone

vars == <<status, userQueue, systemQueue, deadLetters, invoked, throughput,
          pool, wk, ctl, sent, sysSent, opsLeft, panicLeft,
          quota, sysQuota, lastRet, nSusp, nRes, ordered, closeTrue,
          closeFalse, lastRun, crashed>>

queueVars == <<userQueue, systemQueue, deadLetters, invoked, sent, sysSent, quota, sysQuota>>
ctlGhost  == <<nSusp, nRes, ordered, closeTrue, closeFalse, lastRet>>

(* --------------------------- status predicates ------------------------- *)
\* the test looking at the Closed bit only
shouldProcessMessage_ClosedOnly(s) == s # MailboxStatusClosed

shouldProcessMessage(s) == (AndNotScheduled(s)) = 0
isSuspended(s) == AndSuspendMask(s) # 0
isClosed(s)    == s = MailboxStatusClosed
isScheduled(s) == AndScheduled(s) # 0

max(a, b) == IF a > b THEN a ELSE b

(* ------------------------------ queues --------------------------------- *)
\* akka.MessageQueue: FIFO append / take from the head
MessageQueueEnqueue(q, m) == Append(q, m)
MessageQueueHasMessages(q) == q # <<>>

\* Mailbox.Enqueue delegates to the user queue, whatever the status
MailboxEnqueue(q, m) == MessageQueueEnqueue(q, m)
\* Mailbox.Dequeue: the envelope handed out of a non-empty queue
MailboxDequeue(q) == Head(q)

\* processAllSystemMessages: the body is a bare return
processAllSystemMessages(sq, inv) == <<sq, inv>>

(* ---------------------------- dispatcher ------------------------------- *)
\* whether RegisterForExecution schedules a Run
canBeScheduled(s, uq, sq) ==
    /\ AndShouldScheduleMask(s) = MailboxStatusOpen
    /\ (MessageQueueHasMessages(uq) \/ MessageQueueHasMessages(sq))

\* the status after RegisterForExecution's atomic check-and-set
RegisterStatus(s, uq, sq) ==
    IF canBeScheduled(s, uq, sq) THEN s + MailboxStatusScheduled ELSE s
RegisterPool(p, s, uq, sq) ==
    IF canBeScheduled(s, uq, sq) THEN p + 1 ELSE p

(* ------------------------------- Init ---------------------------------- *)
\* n: Invoke calls of this Run so far; q0, s0: the length of the user queue and
\* the envelopes sent when this Run began; seen: the status word the last
\* shouldProcessMessage() of this Run loaded
NoSent     == [s \in Senders |-> 0]
IdleWorker == [pc |-> "idle", left |-> 0, next |-> NoMsg, st |-> 0,
               panic |-> FALSE, trace |-> <<>>,
               n |-> 0, q0 |-> 0, s0 |-> NoSent, seen |-> 0]
IdleCtl    == [pc |-> "idle", op |-> "none", st |-> 0]
NoRet      == [op |-> "none", ret |-> FALSE]

\* The scenarios explored.  "status": several threads drive suspend, resume
\* and becomeClosed against running mailboxes.  "traffic": several senders,
\* system messages, every throughput, a panicking invocation and one status
\* call.
Scenario(name) ==
    IF name = "status"
    THEN /\ throughput = 1
         /\ quota = [s \in Senders |-> 1]
         /\ sysQuota = 0
         /\ opsLeft = [t \in Ctl |-> IF t = 1 THEN MaxCtlOps ELSE 1]
         /\ panicLeft = 0
    ELSE /\ throughput \in ThroughputValues
         /\ quota = [s \in Senders |-> IF s = 1 THEN MaxPerSender ELSE 1]
         /\ sysQuota = MaxSys
         /\ opsLeft = [t \in Ctl |-> IF t = 1 THEN 1 ELSE 0]
         /\ panicLeft = MaxPanics

\* the mailbox after start suspend() calls: status word st, nothing queued,
\* nothing scheduled
Start(st, start) ==
    /\ status = st
    /\ userQueue = <<>>
    /\ systemQueue = <<>>
    /\ deadLetters = <<>>
    /\ invoked = <<>>
    /\ pool = 0
    /\ wk = [w \in Workers |-> IdleWorker]
    /\ ctl = [t \in Ctl |-> IdleCtl]
    /\ sent = [s \in Senders |-> 0]
    /\ sysSent = 0
    /\ \E name \in {"status", "traffic"} : Scenario(name)
    /\ lastRet = NoRet
    /\ nSusp = start
    /\ nRes = 0
    /\ ordered = TRUE
    /\ closeTrue = 0
    /\ closeFalse = 0
    /\ lastRun = <<>>
    /\ crashed = FALSE

\* NewMailbox: status is the zero value, MailboxStatusOpen
Init == Start(MailboxStatusOpen, 0)

\* the largest status word suspend() reaches before the int32 counter wraps:
\* every counter bit but the sign bit set, both low bits clear
WrapStatus == MaxInt32 - MailboxStatusShouldScheduleMask
\* a new mailbox, or one on which suspend() has been called
\* WrapStatus / SuspendUnit times without a resume()
WrapInit ==
    \/ Start(MailboxStatusOpen, 0)
    \/ Start(WrapStatus, WrapStatus \div MailboxStatusSuspendUnit)

(* --------------------------- producer side ----------------------------- *)
\* Mailbox.Enqueue on the user path
Enqueue(s) ==
    /\ ~crashed
    /\ sent[s] < quota[s]
    /\ userQueue' = MailboxEnqueue(userQueue, <<s, sent[s] + 1>>)
    /\ sent' = [sent EXCEPT ![s] = @ + 1]
    /\ UNCHANGED <<status, systemQueue, deadLetters, invoked, throughput, pool,
                   wk, ctl, sysSent, opsLeft, panicLeft, quota, sysQuota, lastRun, crashed>>
    /\ UNCHANGED ctlGhost

\* the system-message enqueue
SystemEnqueue ==
    /\ ~crashed
    /\ sysSent < sysQuota
    /\ systemQueue' = Append(systemQueue, <<0, sysSent + 1>>)
    /\ sysSent' = sysSent + 1
    /\ UNCHANGED <<status, userQueue, deadLetters, invoked, throughput, pool,
                   wk, ctl, sent, opsLeft, panicLeft, quota, sysQuota, lastRun, crashed>>
    /\ UNCHANGED ctlGhost

\* a scheduling attempt by any thread: Dispatcher.RegisterForExecution
RegisterForExecution ==
    /\ ~crashed
    /\ canBeScheduled(status, userQueue, systemQueue)
    /\ status' = RegisterStatus(status, userQueue, systemQueue)
    /\ pool' = RegisterPool(pool, status, userQueue, systemQueue)
    /\ UNCHANGED <<throughput, wk, ctl, opsLeft, panicLeft, lastRun, crashed>>
    /\ UNCHANGED queueVars
    /\ UNCHANGED ctlGhost

\* Mailbox.CleanUp: the user queue is emptied into the dead-letter queue
CleanUp ==
    /\ ~crashed
    /\ MessageQueueHasMessages(userQueue)
    /\ isClosed(status)
    /\ deadLetters' = deadLetters \o userQueue
    /\ userQueue' = <<>>
    /\ UNCHANGED <<status, systemQueue, invoked, throughput, pool, wk, ctl,
                   sent, sysSent, opsLeft, panicLeft, quota, sysQuota, lastRun, crashed>>
    /\ UNCHANGED ctlGhost

(* ------------------------- atomic primitives --------------------------- *)
\* a plain store where the compare-and-swap belongs
updateStatus_Blind(cur, old) == TRUE

\* whether atomic.CompareAndSwapInt32(&p.status, old, new) swaps
updateStatus(cur, old) == cur = old

(* ------------------------------- Run ----------------------------------- *)
WorkerFrame == <<throughput, ctl, opsLeft, panicLeft, lastRun, crashed>>

\* Run with setAsIdle called on entry instead of deferred
Run_EarlyIdle(w) ==
    /\ ~crashed
    /\ wk[w].pc = "idle"
    /\ \A v \in Workers : v < w => wk[v].pc # "idle"
    /\ pool > 0
    /\ pool' = pool - 1
    /\ status' = AndNotScheduled(status)
    /\ wk' = [wk EXCEPT ![w].pc = IF isClosed(status) THEN "setAsIdle" ELSE "loop",
                        ![w].trace = <<"Run">>,
                        ![w].q0 = Len(userQueue), ![w].s0 = sent,
                        ![w].left = max(1, throughput)]
    /\ UNCHANGED <<userQueue, systemQueue, invoked, deadLetters, sent, sysSent, quota, sysQuota>>
    /\ UNCHANGED WorkerFrame
    /\ UNCHANGED ctlGhost

\* the worker pool hands a submitted Run to its first idle worker; Run begins
\* if !isClosed() { processAllSystemMessages(); processMailbox(max(1, Throughput())) }
Run(w) ==
    /\ ~crashed
    /\ wk[w].pc = "idle"
    /\ \A v \in Workers : v < w => wk[v].pc # "idle"
    /\ pool > 0
    /\ pool' = pool - 1
    /\ IF isClosed(status)
       THEN /\ wk' = [wk EXCEPT ![w].pc = "setAsIdle", ![w].trace = <<"Run">>,
                                ![w].q0 = Len(userQueue), ![w].s0 = sent]
            /\ UNCHANGED <<systemQueue, invoked>>
       ELSE /\ systemQueue' = processAllSystemMessages(systemQueue, invoked)[1]
            /\ invoked' = processAllSystemMessages(systemQueue, invoked)[2]
            /\ wk' = [wk EXCEPT ![w].pc = "loop", ![w].trace = <<"Run">>,
                                ![w].q0 = Len(userQueue), ![w].s0 = sent,
                                ![w].left = max(1, throughput)]
    /\ UNCHANGED <<status, userQueue, deadLetters, sent, sysSent,
                   quota, sysQuota>>
    /\ UNCHANGED WorkerFrame
    /\ UNCHANGED ctlGhost

\* processMailbox: for p.shouldProcessMessage() { ...
processMailboxTest(w) ==
    /\ ~crashed
    /\ wk[w].pc = "loop"
    /\ wk' = [wk EXCEPT ![w].pc =
                 IF shouldProcessMessage(status) THEN "dequeue" ELSE "setAsIdle",
                        ![w].seen = status]
    /\ UNCHANGED <<status, pool>>
    /\ UNCHANGED WorkerFrame
    /\ UNCHANGED queueVars
    /\ UNCHANGED ctlGhost

\* processMailbox: next, ok := p.Dequeue(); if !ok { return }
processMailboxDequeue(w) ==
    /\ ~crashed
    /\ wk[w].pc = "dequeue"
    /\ IF MessageQueueHasMessages(userQueue)
       THEN /\ wk' = [wk EXCEPT ![w].pc = "invoke",
                                ![w].next = MailboxDequeue(userQueue)]
            /\ userQueue' = Tail(userQueue)
       ELSE /\ wk' = [wk EXCEPT ![w].pc = "setAsIdle"]
            /\ UNCHANGED userQueue
    /\ UNCHANGED <<status, pool, systemQueue, deadLetters, invoked, sent,
                   sysSent, quota, sysQuota>>
    /\ UNCHANGED WorkerFrame
    /\ UNCHANGED ctlGhost

\* processMailbox: p.invoker.Invoke(next) is called
InvokeCall(w) ==
    /\ ~crashed
    /\ wk[w].pc = "invoke"
    /\ invoked' = Append(invoked, wk[w].next)
    /\ wk' = [wk EXCEPT ![w].pc = "invoking", ![w].n = @ + 1]
    /\ UNCHANGED <<status, pool, userQueue, systemQueue, deadLetters, sent,
                   sysSent, quota, sysQuota>>
    /\ UNCHANGED WorkerFrame
    /\ UNCHANGED ctlGhost

\* the countdown off by one: if left >= 1 { left--; continue }; break
InvokeReturn_OffByOne(w) ==
    /\ ~crashed
    /\ wk[w].pc = "invoking"
    /\ systemQueue' = processAllSystemMessages(systemQueue, invoked)[1]
    /\ invoked' = processAllSystemMessages(systemQueue, invoked)[2]
    /\ wk' = [wk EXCEPT ![w].pc = IF wk[w].left >= 1 THEN "loop" ELSE "setAsIdle",
                        ![w].left = IF wk[w].left >= 1 THEN @ - 1 ELSE @,
                        ![w].next = NoMsg, ![w].seen = 0]
    /\ UNCHANGED <<status, pool, userQueue, deadLetters, sent, sysSent,
                   quota, sysQuota>>
    /\ UNCHANGED WorkerFrame
    /\ UNCHANGED ctlGhost

\* Invoke returns; processAllSystemMessages(); if left > 1 { left--; continue }; break
InvokeReturn(w) ==
    /\ ~crashed
    /\ wk[w].pc = "invoking"
    /\ systemQueue' = processAllSystemMessages(systemQueue, invoked)[1]
    /\ invoked' = processAllSystemMessages(systemQueue, invoked)[2]
    /\ wk' = [wk EXCEPT ![w].pc = IF wk[w].left > 1 THEN "loop" ELSE "setAsIdle",
                        ![w].left = IF wk[w].left > 1 THEN @ - 1 ELSE @,
                        ![w].next = NoMsg, ![w].seen = 0]
    /\ UNCHANGED <<status, pool, userQueue, deadLetters, sent, sysSent,
                   quota, sysQuota>>
    /\ UNCHANGED WorkerFrame
    /\ UNCHANGED ctlGhost

\* a panic that skips the clean-up: setAsIdle and RegisterForExecution called
\* at the end of Run instead of deferred
InvokePanic_NoDefer(w) ==
    /\ ~crashed
    /\ wk[w].pc = "invoking"
    /\ panicLeft > 0
    /\ panicLeft' = panicLeft - 1
    /\ wk' = [wk EXCEPT ![w] = [IdleWorker EXCEPT !.pc = "panicked"]]
    /\ lastRun' = wk[w].trace
    /\ crashed' = TRUE
    /\ UNCHANGED <<status, pool, throughput, ctl, opsLeft>>
    /\ UNCHANGED queueVars
    /\ UNCHANGED ctlGhost

\* Invoke panics: Run has no recover, its deferred function runs and the
\* panic goes on to the worker
InvokePanic(w) ==
    /\ ~crashed
    /\ wk[w].pc = "invoking"
    /\ panicLeft > 0
    /\ panicLeft' = panicLeft - 1
    /\ wk' = [wk EXCEPT ![w].pc = "setAsIdle", ![w].panic = TRUE,
                        ![w].next = NoMsg, ![w].seen = 0]
    /\ UNCHANGED <<status, pool, throughput, ctl, opsLeft, lastRun, crashed>>
    /\ UNCHANGED queueVars
    /\ UNCHANGED ctlGhost

\* setAsIdle storing back the word it read, Scheduled bit included
setAsIdleNext_Keep(s) == s

\* setAsIdle storing the Open word
setAsIdleNext_Open(s) == MailboxStatusOpen

\* the word setAsIdle stores over the one it read
setAsIdleNext(s) == AndNotScheduled(s)

\* setAsIdle: status := p.currentStatus()
setAsIdleLoad(w) ==
    /\ ~crashed
    /\ wk[w].pc = "setAsIdle"
    /\ wk' = [wk EXCEPT ![w].pc = "idleCAS", ![w].st = status]
    /\ UNCHANGED <<status, pool>>
    /\ UNCHANGED WorkerFrame
    /\ UNCHANGED queueVars
    /\ UNCHANGED ctlGhost

\* setAsIdle: if p.updateStatus(status, status&^Scheduled) { return true }
setAsIdleCAS(w) ==
    /\ ~crashed
    /\ wk[w].pc = "idleCAS"
    /\ IF updateStatus(status, wk[w].st)
       THEN /\ status' = setAsIdleNext(wk[w].st)
            /\ wk' = [wk EXCEPT ![w].pc = "register", ![w].st = 0,
                                ![w].n = 0, ![w].q0 = 0, ![w].s0 = NoSent,
                                ![w].seen = 0,
                                ![w].trace = Append(@, "setAsIdle")]
       ELSE /\ wk' = [wk EXCEPT ![w].pc = "setAsIdle", ![w].st = 0]
            /\ UNCHANGED status
    /\ UNCHANGED <<pool>>
    /\ UNCHANGED WorkerFrame
    /\ UNCHANGED queueVars
    /\ UNCHANGED ctlGhost

\* the deferred p.Dispatcher().RegisterForExecution(p, false, false); then
\* Run returns to the worker, or the panic it did not recover reaches it
RunRegister(w) ==
    /\ ~crashed
    /\ wk[w].pc = "register"
    /\ status' = RegisterStatus(status, userQueue, systemQueue)
    /\ pool' = RegisterPool(pool, status, userQueue, systemQueue)
    /\ lastRun' = Append(wk[w].trace, "RegisterForExecution")
    /\ IF wk[w].panic
       THEN /\ crashed' = TRUE
            /\ wk' = [wk EXCEPT ![w] = [IdleWorker EXCEPT !.pc = "panicked"]]
       ELSE /\ wk' = [wk EXCEPT ![w] = IdleWorker]
            /\ UNCHANGED crashed
    /\ UNCHANGED <<throughput, ctl, opsLeft, panicLeft>>
    /\ UNCHANGED queueVars
    /\ UNCHANGED ctlGhost

(* ----------------- suspend / resume / becomeClosed --------------------- *)
CtlOps == {"suspend", "resume", "becomeClosed"}
CtlFrame == <<throughput, pool, wk, panicLeft, lastRun, crashed>>

\* suspend storing the bare counter, without the two low bits
suspendNext_DropsBits(s) == AndSuspendMask(s) + MailboxStatusSuspendUnit
\* resume storing the bare counter, without the two low bits
resumeNext_DropsBits(s) ==
    IF s >= MailboxStatusSuspendUnit
    THEN AndSuspendMask(s) - MailboxStatusSuspendUnit ELSE s
\* resume without the floor at level 0
resumeNext_NoFloor(s) == s - MailboxStatusSuspendUnit
\* a call that does not look for Closed before its CAS
AfterLoad_NoCheck(s) == "cas"
\* suspend comparing with <= : true again for the second nested suspend
suspendResult_Le(s) == s <= MailboxStatusSuspendUnit
\* becomeClosed setting the Closed bit and keeping the other bits
becomeClosedNext_OrBit(s) == s + 1 - Bit(s, 0)

\* the word each operation's CAS stores over the one it read
suspendNext(s) == AddInt32(s, MailboxStatusSuspendUnit)
resumeNext(s) ==
    IF s >= MailboxStatusSuspendUnit THEN s - MailboxStatusSuspendUnit ELSE s
becomeClosedNext(s) == MailboxStatusClosed
\* what each operation returns after its CAS succeeded
suspendResult(s) == s < MailboxStatusSuspendUnit
resumeResult(s)  == resumeNext(s) < MailboxStatusSuspendUnit
becomeClosedResult(s) == TRUE
\* what each operation returns when it read Closed
closedResult == FALSE

\* where a call goes after status := p.currentStatus()
AfterLoad(s) == IF s = MailboxStatusClosed THEN "store" ELSE "cas"

CasNext(op, s) ==
    CASE op = "suspend" -> suspendNext(s)
      [] op = "resume" -> resumeNext(s)
      [] op = "becomeClosed" -> becomeClosedNext(s)
CasResult(op, s) ==
    CASE op = "suspend" -> suspendResult(s)
      [] op = "resume" -> resumeResult(s)
      [] op = "becomeClosed" -> becomeClosedResult(s)

\* a thread calls suspend(), resume() or becomeClosed(), which begins
\* status := p.currentStatus(); if status == MailboxStatusClosed { ...
CtlCall(t, op) ==
    /\ ~crashed
    /\ ctl[t].pc = "idle"
    /\ opsLeft[t] > 0
    /\ opsLeft' = [opsLeft EXCEPT ![t] = @ - 1]
    /\ ctl' = [ctl EXCEPT ![t] = [IdleCtl EXCEPT !.op = op, !.st = status,
                                                 !.pc = AfterLoad(status)]]
    /\ UNCHANGED <<status>>
    /\ UNCHANGED CtlFrame
    /\ UNCHANGED queueVars
    /\ UNCHANGED ctlGhost

\* the call made again after a failed CAS loads the status afresh
CtlLoad(t) ==
    /\ ~crashed
    /\ ctl[t].pc = "load"
    /\ ctl' = [ctl EXCEPT ![t].st = status, ![t].pc = AfterLoad(status)]
    /\ UNCHANGED <<status, opsLeft>>
    /\ UNCHANGED CtlFrame
    /\ UNCHANGED queueVars
    /\ UNCHANGED ctlGhost

\* p.setStatus(MailboxStatusClosed); return false
CtlStoreClosed(t) ==
    /\ ~crashed
    /\ ctl[t].pc = "store"
    /\ status' = MailboxStatusClosed
    /\ ctl' = [ctl EXCEPT ![t] = IdleCtl]
    /\ lastRet' = [op |-> ctl[t].op, ret |-> closedResult]
    /\ closeFalse' = IF ctl[t].op = "becomeClosed" /\ ~closedResult
                     THEN closeFalse + 1 ELSE closeFalse
    /\ closeTrue' = IF ctl[t].op = "becomeClosed" /\ closedResult
                    THEN closeTrue + 1 ELSE closeTrue
    /\ UNCHANGED <<opsLeft, nSusp, nRes, ordered>>
    /\ UNCHANGED CtlFrame
    /\ UNCHANGED queueVars

\* p.updateStatus(status, next): on success the call returns, on failure it
\* calls itself again
CtlCAS(t) ==
    /\ ~crashed
    /\ ctl[t].pc = "cas"
    /\ IF updateStatus(status, ctl[t].st)
       THEN /\ status' = CasNext(ctl[t].op, ctl[t].st)
            /\ ctl' = [ctl EXCEPT ![t] = IdleCtl]
            /\ lastRet' = [op |-> ctl[t].op,
                           ret |-> CasResult(ctl[t].op, ctl[t].st)]
            /\ nSusp' = IF ctl[t].op = "suspend" THEN nSusp + 1 ELSE nSusp
            /\ nRes' = IF ctl[t].op = "resume" THEN nRes + 1 ELSE nRes
            /\ ordered' = (ordered /\ (ctl[t].op = "resume" => nRes < nSusp))
            /\ closeTrue' = IF ctl[t].op = "becomeClosed"
                               /\ CasResult(ctl[t].op, ctl[t].st)
                            THEN closeTrue + 1 ELSE closeTrue
            /\ closeFalse' = IF ctl[t].op = "becomeClosed"
                                /\ ~CasResult(ctl[t].op, ctl[t].st)
                             THEN closeFalse + 1 ELSE closeFalse
       ELSE /\ ctl' = [ctl EXCEPT ![t].pc = "load", ![t].st = 0]
            /\ UNCHANGED status
            /\ UNCHANGED ctlGhost
    /\ UNCHANGED <<opsLeft>>
    /\ UNCHANGED CtlFrame
    /\ UNCHANGED queueVars

(* ------------------------------- Next ---------------------------------- *)
WorkerStep(w) ==
    \/ Run(w)
    \/ processMailboxTest(w)
    \/ processMailboxDequeue(w)
    \/ InvokeCall(w)
    \/ InvokeReturn(w)
    \/ InvokePanic(w)
    \/ setAsIdleLoad(w)
    \/ setAsIdleCAS(w)
    \/ RunRegister(w)

Next ==
    \/ \E s \in Senders : Enqueue(s)
    \/ SystemEnqueue
    \/ RegisterForExecution
    \/ CleanUp
    \/ \E w \in Workers : WorkerStep(w)
    \/ \E t \in Ctl : \E op \in CtlOps : CtlCall(t, op)
    \/ \E t \in Ctl : CtlLoad(t)
    \/ \E t \in Ctl : CtlStoreClosed(t)
    \/ \E t \in Ctl : CtlCAS(t)

Spec == Init /\ [][Next]_vars
WrapSpec == WrapInit /\ [][Next]_vars


(* ------------------------------ fairness ------------------------------- *)
\* The worker pool runs every submitted Run and every started Run goes on;
\* a call of suspend/resume/becomeClosed goes on; the dispatcher's
\* registration and the clean-up of a closed mailbox are not put off for ever.
Fairness ==
    /\ \A w \in Workers : WF_vars(WorkerStep(w))
    /\ \A t \in Ctl : WF_vars(CtlLoad(t) \/ CtlStoreClosed(t) \/ CtlCAS(t))
    /\ WF_vars(RegisterForExecution)
    /\ WF_vars(CleanUp)

FairSpec == Init /\ [][Next]_vars /\ Fairness

(* ------------------------------ helpers -------------------------------- *)
ActivePcs == {"loop", "dequeue", "invoke", "invoking", "setAsIdle", "idleCAS",
              "register"}
\* from the entry of Run to the successful CAS of its setAsIdle
BodyPcs   == ActivePcs \ {"register"}
ActiveRuns == {w \in Workers : wk[w].pc \in ActivePcs}
RunsInBody == {w \in Workers : wk[w].pc \in BodyPcs}
Invoking   == {w \in Workers : wk[w].pc = "invoking"}

Count(m, q) == Cardinality({i \in 1..Len(q) : q[i] = m})
Deliveries(m) == Count(m, invoked) + Count(m, deadLetters)
Enqueued(m) ==
    IF IsSys(m) THEN m[2] <= sysSent ELSE m[2] <= sent[m[1]]
Range(q) == {q[i] : i \in 1..Len(q)}

CallCompletes(t) == ctl[t].pc \in {"cas", "store"} /\ ctl'[t].pc = "idle"
ExpectedRun == <<"Run", "setAsIdle", "RegisterForExecution">>

(* ------------------------------- claims -------------------------------- *)

\* C1 (as stated): at most one Run is active at any instant, a Run counting
\* as active from its entry until it returns.
C1_Original == Cardinality(ActiveRuns) <= 1

\* C1 (amended): at most one Run is between its entry and the successful CAS
\* of its setAsIdle; only the deferred RegisterForExecution call of a Run that
\* has already cleared the Scheduled bit can overlap another Run.
C1_MutualExclusion == Cardinality(RunsInBody) <= 1

C1_Witness ==
    \E w, v \in Workers :
        /\ wk[w].pc = "invoking"
        /\ wk[v].pc = "register"

\* C2: at most one call of invoker.Invoke made from processMailbox is in
\* progress at any instant.
C2_OneInvoke == Cardinality(Invoking) <= 1

C2_Witness ==
    /\ \E w \in Workers : wk[w].pc = "invoking"
    /\ \E t \in Ctl : ctl[t].pc = "cas"
    /\ Len(userQueue) > 0

\* C3: every enqueued message (user or system) is delivered to the invoker or
\* to the dead-letter sink at most once in every state, and eventually once;
\* only a user message may wait, and only while the mailbox is suspended.
C3_Delivery ==
    /\ [](\A m \in AllMsgs : Deliveries(m) <= 1)
    /\ \A m \in SysMsgs : (Enqueued(m) ~> (Deliveries(m) = 1))
    /\ \A m \in UserMsgs :
          (Enqueued(m) ~> (Deliveries(m) = 1 \/ isSuspended(status)))

\* C4: the envelopes of one sender are handed to invoker.Invoke in the order
\* in which that sender enqueued them.
C4_FifoPerSender ==
    \A i, j \in 1..Len(invoked) :
        (i < j /\ invoked[i][1] = invoked[j][1]) => invoked[i][2] < invoked[j][2]

C4_Witness ==
    /\ Len(invoked) = 3
    /\ invoked[1] = <<1, 1>>
    /\ invoked[2][1] = 2
    /\ invoked[3] = <<1, 2>>

\* C5: when a Run goes from one user-message invocation to the next of the
\* same batch, every system message queued by then has been handed to the
\* invoker.
C5_SystemFirst ==
    [][\A w \in Workers :
          (wk[w].pc = "invoking" /\ wk'[w].pc = "loop")
              => Range(systemQueue) \subseteq Range(invoked')]_vars

C7_OneCloser ==
    /\ closeTrue <= 1
    /\ closeFalse > 0 => closeTrue = 1

C7_Witness ==
    /\ closeTrue = 1
    /\ closeFalse = 1
    /\ nSusp = 1

\* C8: once the status word is Closed it stays Closed, and every call of
\* suspend(), resume() or becomeClosed() that completes then returns false.
C8_ClosedAbsorbing ==
    [][isClosed(status) =>
          /\ status' = MailboxStatusClosed
          /\ \A t \in Ctl : CallCompletes(t) => lastRet'.ret = FALSE]_vars

C8_Witness ==
    /\ isClosed(status)
    /\ lastRet = [op |-> "suspend", ret |-> FALSE]
    /\ \E w \in Workers : wk[w].pc = "register"

\* C9: an Enqueue on the user path of a closed mailbox puts the envelope in
\* the dead-letter sink and leaves the user queue as it was.
C9_EnqueueClosed ==
    [][\A s \in Senders :
          (isClosed(status) /\ sent'[s] = sent[s] + 1)
              => /\ userQueue' = userQueue
                 /\ deadLetters' = Append(deadLetters, <<s, sent'[s]>>)]_vars

\* C10: every Run that has ended called setAsIdle and then
\* RegisterForExecution, once each and in that order, and when no Run is
\* active or submitted the Scheduled bit is clear.
C10_RunCleanup ==
    /\ lastRun # <<>> => lastRun = ExpectedRun
    /\ (ActiveRuns = {} /\ pool = 0) => ~isScheduled(status)

C10_Witness ==
    /\ crashed
    /\ lastRun = ExpectedRun
    /\ ~isScheduled(status)

\* C11: a panic raised by Invoke for one message never escapes Run: the
\* failed invocation uses up one throughput slot exactly as a successful one
\* does, processMailbox goes on (to the next message, or to the end of the
\* run when the slots are used up), and Run returns normally to its worker.
C11_PanicContained ==
    /\ [][\A w \in Workers :
             (wk[w].pc = "invoking" /\ panicLeft' = panicLeft - 1)
                 => /\ ~wk'[w].panic
                    /\ wk'[w].pc = IF wk[w].left > 1 THEN "loop" ELSE "setAsIdle"
                    /\ wk'[w].left = IF wk[w].left > 1 THEN wk[w].left - 1
                                                       ELSE wk[w].left]_vars
    /\ [](~crashed)

\* C12: with throughput 1, a mailbox that has stayed open and unsuspended and
\* no system traffic, there is one Run per user message: every Run invokes
\* exactly one user message before it goes idle, the RegisterForExecution
\* that closes a Run schedules the next Run while envelopes are queued, and
\* once the queue is empty and the last Run has gone idle no Run is scheduled.
OneByOne ==
    /\ throughput = 1
    /\ sysSent = 0
    /\ nSusp = 0
    /\ ~isClosed(status)

QueuesEmpty == userQueue = <<>> /\ systemQueue = <<>>

C13_IdleAfterEmpty ==
    /\ []((QueuesEmpty /\ isScheduled(status))
             => pool + Cardinality(RunsInBody) = 1)
    /\ []((QueuesEmpty /\ ~isScheduled(status) /\ ~isClosed(status))
             => pool + Cardinality(RunsInBody) = 0)
    /\ [][(QueuesEmpty /\ QueuesEmpty' /\ ~isScheduled(status))
             => (~isScheduled(status') /\ pool' <= pool)]_vars

\* the last Run has gone idle over empty queues and its closing
\* RegisterForExecution has left the mailbox unscheduled
C13_Witness ==
    /\ QueuesEmpty
    /\ Len(invoked) >= 2
    /\ lastRun = ExpectedRun
    /\ ActiveRuns = {}
    /\ pool = 0
    /\ ~isScheduled(status)
    /\ ~isClosed(status)

\* the same under fair scheduling: the bit does get cleared
NothingToCome == QueuesEmpty /\ sent = quota /\ sysSent = sysQuota
GoneIdle      == ~isScheduled(status) \/ crashed
C13_Live      == NothingToCome ~> GoneIdle

\* C14: Enqueue on the user path appends the envelope to the user queue and
\* then has the dispatcher register the mailbox: when Enqueue has returned on
\* a mailbox that was idle (not scheduled), open and not suspended, the
\* envelope is queued, the Scheduled bit is set and a Run is submitted.
C14_EnqueueRegisters ==
    [][\A s \in Senders :
          (sent'[s] = sent[s] + 1 /\ status = MailboxStatusOpen)
              => /\ userQueue' = Append(userQueue, <<s, sent'[s]>>)
                 /\ isScheduled(status')
                 /\ pool' = pool + 1]_vars

\* C15: one Run invokes at most max(1, Throughput()) user messages, whatever
\* the throughput (0 and negative values count as 1) and the queue length;
\* and when the mailbox has stayed open and unsuspended and nothing was
\* enqueued during the run, processMailbox returns having invoked exactly
\* min(queue length when the run began, max(1, Throughput())) messages.
Min(a, b) == IF a < b THEN a ELSE b

C15_ThroughputBound ==
    \A w \in Workers :
        /\ wk[w].n <= max(1, throughput)
        /\ (/\ wk[w].pc = "setAsIdle"
            /\ ~isClosed(status)
            /\ nSusp = 0
            /\ sent = wk[w].s0)
               => wk[w].n = Min(wk[w].q0, max(1, throughput))

\* C16: system messages pass a suspension but not a close. The system-message
\* step with which Run begins, on a mailbox that is suspended and not
\* closed, hands every queued system message to the invoker and leaves the
\* system queue empty, and invokes no user message; a Run that begins on a
\* closed mailbox invokes nothing.
RunBegins(w) == wk[w].pc = "idle" /\ wk'[w].pc \in {"loop", "setAsIdle"}

C16_SystemBypass ==
    [][\A w \in Workers :
          RunBegins(w) =>
              IF isClosed(status)
              THEN invoked' = invoked
              ELSE isSuspended(status) =>
                      /\ systemQueue' = <<>>
                      /\ invoked' = invoked \o systemQueue
                      /\ userQueue' = userQueue]_vars

\* C17 (as stated): at the moment Invoke is called for a user message the
\* status word has suspend level 0 and is not Closed, in every interleaving.
C17_Original ==
    [][\A w \in Workers :
          (wk[w].pc = "invoke" /\ wk'[w].pc = "invoking")
              => (~isSuspended(status) /\ ~isClosed(status))]_vars

\* C17 (amended): a user message is dequeued and passed to Invoke only after
\* shouldProcessMessage(), called in the same iteration of processMailbox's
\* loop, loaded a status word with suspend level 0 and the Closed bit clear;
\* and an iteration that begins while the mailbox is suspended or closed
\* dequeues and invokes nothing. A suspend() or becomeClosed() that lands
\* between that load and the Invoke does not hold back the one message.
C17_CheckedBeforeInvoke ==
    /\ [](\A w \in Workers :
            wk[w].pc \in {"dequeue", "invoke", "invoking"}
                => /\ AndSuspendMask(wk[w].seen) = 0
                   /\ Bit(wk[w].seen, 0) = 0)
    /\ [][\A w \in Workers :
             (wk[w].pc = "loop" /\ wk'[w].pc # "loop"
                  /\ (isSuspended(status) \/ isClosed(status)))
                 => /\ wk'[w].pc = "setAsIdle"
                    /\ userQueue' = userQueue
                    /\ invoked' = invoked]_vars

\* the race the amendment allows: Invoke is running on a message whose test
\* saw an unsuspended word, and the mailbox has been suspended since
C17_Witness ==
    \E w \in Workers :
        /\ wk[w].pc = "invoking"
        /\ ~isSuspended(wk[w].seen)
        /\ isSuspended(status)
        /\ invoked # <<>>

\* C18: suspend() returns true exactly when its own CAS moved the suspend
\* level from 0 to 1, and false at every deeper level and on a closed
\* mailbox; resume() returns true exactly when the level after the call is 0
\* and the mailbox is not closed, and false while the level is still above 0
\* or the mailbox is closed. The Scheduled bit plays no part, and the results
\* are those of the call's own CAS when several threads call at once.
Level(s) == AndSuspendMask(s) \div MailboxStatusSuspendUnit

C18_ReturnValues ==
    [][\A t \in Ctl :
          CallCompletes(t) =>
              /\ ctl[t].op = "suspend" =>
                    (lastRet'.ret <=> /\ ctl[t].pc = "cas"
                                      /\ Level(status) = 0
                                      /\ Level(status') = 1)
              /\ ctl[t].op = "resume" =>
                    (lastRet'.ret <=> /\ Level(status') = 0
                                      /\ ~isClosed(status'))]_vars

\* a nested suspend() has returned false on a scheduled mailbox
C18_Witness ==
    /\ lastRet = [op |-> "suspend", ret |-> FALSE]
    /\ Level(status) = 2
    /\ isScheduled(status)
    /\ \E t \in Ctl : ctl[t].pc \in {"load", "cas"}

\* C19: in every reachable state shouldProcessMessage() is true exactly when
\* the mailbox is neither closed nor suspended, and the Closed bit is never
\* set together with the Scheduled bit or a suspend level above 0, so that
\* isClosed(), which compares the whole word, agrees with the Closed bit.
C19_PredicatesAgree ==
    /\ shouldProcessMessage(status) <=> (~isClosed(status) /\ ~isSuspended(status))
    /\ Bit(status, 0) = 1 => (~isScheduled(status) /\ Level(status) = 0)
    /\ isClosed(status) <=> Bit(status, 0) = 1

\* closed after having been suspended while scheduled: the close wiped the
\* suspend level and the Scheduled bit of a Run that is still under way
C19_Witness ==
    /\ isClosed(status)
    /\ nSusp > nRes
    /\ closeTrue = 1
    /\ RunsInBody # {}

\* C20: the successful CAS of setAsIdle clears the Scheduled bit and nothing
\* else: the Closed bit and the suspend level after it are those of the word
\* it replaced, whatever suspend(), resume() and becomeClosed() did while it
\* ran, so none of their effects is lost or undone; and the CAS of suspend()
\* and of resume() leaves the Scheduled bit as it was.
SetAsIdleDone(w) == wk[w].pc = "idleCAS" /\ wk'[w].pc = "register"

C20_DisjointBits ==
    [][/\ \A w \in Workers :
             SetAsIdleDone(w) =>
                 /\ ~isScheduled(status')
                 /\ Bit(status', 0) = Bit(status, 0)
                 /\ Level(status') = Level(status)
                 /\ nSusp' = nSusp /\ nRes' = nRes /\ closeTrue' = closeTrue
       /\ \A t \in Ctl :
             (CallCompletes(t) /\ ctl[t].pc = "cas"
                               /\ ctl[t].op \in {"suspend", "resume"})
                 => AndScheduled(status') = AndScheduled(status)]_vars

\* setAsIdle has succeeded on a mailbox that a suspend() suspended after the
\* Run had invoked a message: the level is kept, the Scheduled bit is clear
C20_Witness ==
    \E w \in Workers :
        /\ wk[w].pc = "register"
        /\ Level(status) = 1
        /\ ~isScheduled(status)
        /\ lastRet = [op |-> "suspend", ret |-> TRUE]
        /\ invoked # <<>>

\* C21: after any sequence of suspend() and resume() calls the status word is
\* not negative, the suspend level it holds is the number of suspends not yet
\* matched by a resume (counted while every resume has followed its suspend,
\* on a mailbox that is not closed), and isSuspended() holds exactly when
\* that level is above 0.
C21_LevelNonNegative ==
    /\ status >= 0
    /\ (~isClosed(status) /\ ordered) => Level(status) = nSusp - nRes
    /\ isSuspended(status) <=> Level(status) > 0

====
